---------------------------- MODULE Spec2Model ----------------------------
(***************************************************************************)
(* Model of cloud/smartdatacenter/sdc.py: the Ansible module that creates  *)
(* or deletes SmartDataCenter machines.  One invocation with state=present *)
(* runs create_virtual_machine, one with state=absent runs delete_machines.*)
(* The provider (the smartdc DataCenter object) is the only shared state.  *)
(***************************************************************************)
EXTENDS Integers, Sequences, FiniteSets, TLC

-----------------------------------------------------------------------------
(* Bounds of the model *)

MaxMachines == 2
MaxCount == 2

(* time.sleep(2) in _wait_for_status *)
SleepSeconds == 2

-----------------------------------------------------------------------------
(* Tag dictionaries.  A dict is a set of <<key, value>> pairs with at most *)
(* one pair per key; the empty dict {} is falsy in Python.                 *)

Keys == {"role"}
Vals == {"web", "db"}

IsDict(d) == \A p \in d : \A q \in d : p[1] = q[1] => p = q

TagDicts == {d \in SUBSET (Keys \X Vals) : IsDict(d)}

(* An optional parameter: None when it is not given, else Some(value) *)
None == <<>>
Some(v) == <<v>>
Value(o) == o[1]

(* sdc.machines without a state filter *)
AnyState == "any"

RECURSIVE Items(_)
(* d.items(): the pairs of d as a list *)
Items(d) ==
    IF d = {} THEN <<>>
    ELSE LET p == CHOOSE q \in d : TRUE
         IN  <<p>> \o Items(d \ {p})

RECURSIVE DictOf(_)
(* dict(items): pairs are inserted left to right, a later pair replaces an *)
(* earlier pair with the same key                                          *)
DictOf(items) ==
    IF items = <<>> THEN {}
    ELSE LET n    == Len(items)
             last == items[n]
             init == DictOf(SubSeq(items, 1, n - 1))
         IN  {p \in init : p[1] # last[1]} \cup {last}

Range(s) == {s[i] : i \in 1..Len(s)}

Max(a, b) == IF a >= b THEN a ELSE b

NoDuplicates(s) == \A i \in 1..Len(s) : \A j \in 1..Len(s) : s[i] = s[j] => i = j

IsPrefix(s, t) == Len(s) <= Len(t) /\ s = SubSeq(t, 1, Len(s))

-----------------------------------------------------------------------------
(* State *)

VARIABLES
    sdc,                \* the provider: machine id -> machine record
    pcP,                \* position of the state=present invocation
    paramsP,            \* module.params of the state=present invocation
    full_tags,          \* create_virtual_machine: full_tags
    changedP,           \* create_virtual_machine: changed
    existing_machines,  \* create_virtual_machine: existing_machines (ids)
    created_machines,   \* create_virtual_machine: created_machines (ids)
    count_needed,       \* create_virtual_machine: count_needed
    elapsedP,           \* seconds slept in _wait_for_status (present)
    outcomeP,           \* how the state=present invocation ended
    resultP,            \* machines=... of exit_json
    runningAtStart,     \* history: running machines matching count_tag at start
    deletedAtStart,     \* history: machines sm.delete() was called on by then
    pcD,                \* position of the state=absent invocation
    paramsD,            \* module.params of the state=absent invocation
    changedD,           \* delete_machines: changed
    machines,           \* delete_machines: machines (ids)
    stopCalls,          \* history: ids sm.stop() was called on, in order
    deleteCalls,        \* history: ids sm.delete() was called on, in order
    elapsedD,           \* seconds slept in _wait_for_status (absent)
    outcomeD            \* how the state=absent invocation ended

pvars == <<pcP, paramsP, full_tags, changedP, existing_machines, created_machines,
           count_needed, elapsedP, outcomeP, resultP, runningAtStart,
           deletedAtStart>>
dvars == <<pcD, paramsD, changedD, machines, stopCalls, deleteCalls,
           elapsedD, outcomeD>>
vars == <<sdc, pvars, dvars>>

NoParamsP == [count_tag |-> {}, exact_count |-> None, count |-> 1,
              wait |-> TRUE, wait_timeout |-> 0]
NoParamsD == [tags |-> {}, machine_id |-> None, wait_timeout |-> 0]

-----------------------------------------------------------------------------
(* The provider client (smartdc.DataCenter) as the module uses it *)

Ids(pool) == 1..Len(pool)

(* a machine the provider still knows *)
Live(pool) == {i \in Ids(pool) : pool[i].status # "deleted"}

Matches(m, tags) == tags \subseteq m.tags

(* sdc.machines(tags=tags, state=state): the machines carrying every given *)
(* tag, in the given state when one is given                               *)
SdcMachines(pool, tags, state) ==
    LET Keep(i) == /\ i \in Live(pool)
                   /\ Matches(pool[i], tags)
                   /\ (state # AnyState => pool[i].status = state)
    IN  SelectSeq([i \in Ids(pool) |-> i], Keep)

(* sdc.create_machine(..., tags=tags): a new machine, not yet running *)
SdcCreateMachine(pool, tags, count_tag) ==
    Append(pool, [status |-> "provisioning", tags |-> tags,
                  stop |-> FALSE, delete |-> FALSE, count_tag |-> count_tag])

(* sm.stop(): the request is recorded, the machine stops later, once it    *)
(* is running                                                              *)
SmStop(pool, i) == [pool EXCEPT ![i].stop = TRUE]

(* sm.delete(): the request is recorded, the machine disappears later *)
SmDelete(pool, i) == [pool EXCEPT ![i].delete = TRUE]

(* sm.status() *)
SmStatus(pool, i) == pool[i].status

-----------------------------------------------------------------------------
(* _wait_for_status *)

(* a slip: any( ... ) where the code has all( ... ) *)
SomeInStatus(pool, ms, status) ==
    \E n \in 1..Len(ms) : SmStatus(pool, ms[n]) = status

(* all( sm.status() == status for sm in machines ) *)
AllInStatus(pool, ms, status) ==
    \A n \in 1..Len(ms) : SmStatus(pool, ms[n]) = status

(* the while condition: keep sleeping while some machine is not in the     *)
(* status and the deadline has not passed                                  *)
KeepWaiting(pool, ms, status, wait_timeout, elapsed) ==
    ~AllInStatus(pool, ms, status) /\ wait_timeout > elapsed

(* a slip: the check after the loop is left out *)
WaitNeverFails(pool, ms, status) == FALSE

(* the check after the loop: fail_json when some machine is not in status  *)
WaitFailed(pool, ms, status) == ~AllInStatus(pool, ms, status)

-----------------------------------------------------------------------------
(* create_virtual_machine *)

(* a slip: the two lists concatenated the other way round *)
FullTagsTagsWin(tags, count_tag) == DictOf(Items(count_tag) \o Items(tags))

(* full_tags = dict(tags.items() + count_tag.items()) *)
FullTags(tags, count_tag) == DictOf(Items(tags) \o Items(count_tag))

(* a slip: the listing without state='running' *)
ListExistingAnyState(pool, tags) ==
    IF tags = {}
    THEN [failed |-> TRUE, machines |-> <<>>]
    ELSE [failed |-> FALSE, machines |-> SdcMachines(pool, tags, AnyState)]

(* list_existing_machines: fails without tags, else the running matches *)
ListExistingMachines(pool, tags) ==
    IF tags = {}
    THEN [failed |-> TRUE, machines |-> <<>>]
    ELSE [failed |-> FALSE, machines |-> SdcMachines(pool, tags, "running")]

(* a slip: the test on exact_count alone *)
UseExactCountAlone(count_tag, exact_count) == exact_count # 0

(* if count_tag and exact_count: an empty dict and the integer 0 are falsy *)
UseExactCount(count_tag, exact_count) == count_tag # {} /\ exact_count # 0

(* a slip: the shortfall taken from count instead of exact_count *)
CountNeededFromCount(count_tag, exact_count, count, existing) ==
    IF count_tag # {} /\ exact_count # 0
    THEN count - Len(existing)
    ELSE count

(* count_needed: the shortfall in exact-count mode, else count *)
CountNeeded(count_tag, exact_count, count, existing) ==
    IF UseExactCount(count_tag, exact_count)
    THEN exact_count - Len(existing)
    ELSE count

(* existing_machines + created_machines *)
AllMachines(existing, created) == existing \o created

-----------------------------------------------------------------------------
(* Inputs *)

ExactCounts == {None} \cup {Some(n) : n \in 0..MaxCount}
Counts == 0..MaxCount
(* no time to wait, or the time of one sleep *)
WaitTimeouts == {0, SleepSeconds}

(* the parameters read after the first lines of create_virtual_machine;    *)
(* wait_timeout is read only when wait is set                              *)
ParamsP == {p \in [count_tag : TagDicts, exact_count : ExactCounts,
                   count : Counts, wait : BOOLEAN, wait_timeout : WaitTimeouts] :
              ~p.wait => p.wait_timeout = 0}

-----------------------------------------------------------------------------
(* state=present: main, then create_virtual_machine *)

(* The invocation up to the first create call: int(exact_count) raises on  *)
(* None; in exact-count mode the existing machines are listed.  The        *)
(* provider of the model holds MaxMachines machines at most, so a run is   *)
(* started only when the machines it is to create fit.                     *)
PStart(tags, p) ==
    /\ pcP = "idle"
    /\ paramsP' = p
    /\ full_tags' = FullTags(tags, p.count_tag)
    /\ runningAtStart' = Len(SdcMachines(sdc, p.count_tag, "running"))
    /\ deletedAtStart' = {i \in Ids(sdc) : sdc[i].delete}
    /\ elapsedP' = 0
    /\ resultP' = <<>>
    /\ created_machines' = <<>>
    /\ IF p.exact_count = None
       THEN /\ pcP' = "failed"
            /\ outcomeP' = "TypeError"
            /\ UNCHANGED <<changedP, existing_machines, count_needed>>
       ELSE LET exact_count == Value(p.exact_count)
                listing == IF UseExactCount(p.count_tag, exact_count)
                           THEN ListExistingMachines(sdc, p.count_tag)
                           ELSE [failed |-> FALSE, machines |-> <<>>]
                needed  == CountNeeded(p.count_tag, exact_count, p.count,
                                       listing.machines)
            IN  IF listing.failed
                THEN /\ pcP' = "failed"
                     /\ outcomeP' = "ConfigurationError"
                     /\ UNCHANGED <<changedP, existing_machines, count_needed>>
                ELSE /\ Len(sdc) + Max(needed, 0) <= MaxMachines
                     /\ existing_machines' = listing.machines
                     /\ count_needed' = needed
                     /\ changedP' = (needed > 0)
                     /\ pcP' = IF needed > 0 THEN "create" ELSE "return"
                     /\ outcomeP' = "none"
    /\ UNCHANGED <<sdc, dvars>>

(* one pass of: for x in range(count_needed): sdc.create_machine(...) *)
PCreate ==
    /\ pcP = "create"
    /\ Len(created_machines) < count_needed
    /\ sdc' = SdcCreateMachine(sdc, full_tags, paramsP.count_tag)
    /\ created_machines' = Append(created_machines, Len(sdc) + 1)
    /\ pcP' = IF Len(created_machines) + 1 < count_needed THEN "create"
              ELSE IF paramsP.wait THEN "poll" ELSE "return"
    /\ UNCHANGED <<paramsP, full_tags, changedP, existing_machines, count_needed, elapsedP,
                   outcomeP, resultP, runningAtStart, deletedAtStart, dvars>>

(* _wait_for_status(created_machines, 'running'): one test of the loop *)
PPoll ==
    /\ pcP = "poll"
    /\ IF KeepWaiting(sdc, created_machines, "running", paramsP.wait_timeout,
                      elapsedP)
       THEN /\ elapsedP' = elapsedP + SleepSeconds
            /\ pcP' = "poll"
       ELSE /\ elapsedP' = elapsedP
            /\ pcP' = "check"
    /\ UNCHANGED <<sdc, paramsP, full_tags, changedP, existing_machines, created_machines,
                   count_needed, outcomeP, resultP, runningAtStart, deletedAtStart, dvars>>

(* _wait_for_status: the check after the loop *)
PCheck ==
    /\ pcP = "check"
    /\ IF WaitFailed(sdc, created_machines, "running")
       THEN /\ pcP' = "failed"
            /\ outcomeP' = "Timeout"
       ELSE /\ pcP' = "return"
            /\ outcomeP' = outcomeP
    /\ UNCHANGED <<sdc, paramsP, full_tags, changedP, existing_machines, created_machines,
                   count_needed, elapsedP, resultP, runningAtStart, deletedAtStart,
                   dvars>>

(* return changed, [raw_machine_data(sm.id) ...]; main: exit_json.  The    *)
(* provider may refuse the data of a machine that is gone.                 *)
PReturn ==
    /\ pcP = "return"
    /\ LET all_machines == AllMachines(existing_machines, created_machines)
       IN  \/ /\ pcP' = "done"
              /\ outcomeP' = "success"
              /\ resultP' = all_machines
           \/ /\ \E n \in 1..Len(all_machines) :
                    sdc[all_machines[n]].status = "deleted"
              /\ pcP' = "failed"
              /\ outcomeP' = "ProviderError"
              /\ resultP' = resultP
    /\ UNCHANGED <<sdc, paramsP, full_tags, changedP, existing_machines, created_machines,
                   count_needed, elapsedP, runningAtStart, deletedAtStart, dvars>>

(* the process ends; the next invocation starts afresh *)
PExit ==
    /\ pcP \in {"done", "failed"}
    /\ pcP' = "idle"
    /\ paramsP' = NoParamsP
    /\ full_tags' = {}
    /\ changedP' = FALSE
    /\ existing_machines' = <<>>
    /\ created_machines' = <<>>
    /\ count_needed' = 0
    /\ elapsedP' = 0
    /\ outcomeP' = "none"
    /\ resultP' = <<>>
    /\ runningAtStart' = 0
    /\ deletedAtStart' = {}
    /\ UNCHANGED <<sdc, dvars>>

-----------------------------------------------------------------------------
(* state=absent: main, then delete_machines *)

(* a slip: machine_id tested before tags *)
SelectionIdFirst(pool, tags, machine_id) ==
    IF machine_id # None THEN <<Value(machine_id)>>
    ELSE IF tags # {} THEN SdcMachines(pool, tags, AnyState)
    ELSE <<>>

(* machines = sdc.machines(tags=tags) if tags, elif machine_id:            *)
(* [sdc.machine(machine_id)], else []                                      *)
Selection(pool, tags, machine_id) ==
    IF tags # {} THEN SdcMachines(pool, tags, AnyState)
    ELSE IF machine_id # None THEN <<Value(machine_id)>>
    ELSE <<>>

(* the selection; with none selected the invocation is over *)
DStart(tags, machine_id, wait_timeout) ==
    /\ pcD = "idle"
    /\ machine_id \in {None} \cup {Some(i) : i \in Live(sdc)}
    /\ paramsD' = [tags |-> tags, machine_id |-> machine_id,
                   wait_timeout |-> wait_timeout]
    /\ machines' = Selection(sdc, tags, machine_id)
    /\ changedD' = (machines' # <<>>)
    /\ stopCalls' = <<>>
    /\ deleteCalls' = <<>>
    /\ elapsedD' = 0
    /\ IF machines' # <<>>
       THEN /\ pcD' = "stop"
            /\ outcomeD' = "none"
       ELSE /\ pcD' = "done"
            /\ outcomeD' = "success"
    /\ UNCHANGED <<sdc, pvars>>

(* one pass of: [sm.stop() for sm in machines] *)
DStop ==
    /\ pcD = "stop"
    /\ Len(stopCalls) < Len(machines)
    /\ LET sm == machines[Len(stopCalls) + 1]
       IN  /\ sdc' = SmStop(sdc, sm)
           /\ stopCalls' = Append(stopCalls, sm)
    /\ pcD' = IF Len(stopCalls) + 1 < Len(machines) THEN "stop" ELSE "poll"
    /\ UNCHANGED <<paramsD, changedD, machines, deleteCalls, elapsedD, outcomeD,
                   pvars>>

(* _wait_for_status(machines, 'stopped'): one test of the loop *)
DPoll ==
    /\ pcD = "poll"
    /\ IF KeepWaiting(sdc, machines, "stopped", paramsD.wait_timeout, elapsedD)
       THEN /\ elapsedD' = elapsedD + SleepSeconds
            /\ pcD' = "poll"
       ELSE /\ elapsedD' = elapsedD
            /\ pcD' = "check"
    /\ UNCHANGED <<sdc, paramsD, changedD, machines, stopCalls, deleteCalls,
                   outcomeD, pvars>>

(* _wait_for_status: the check after the loop *)
DCheck ==
    /\ pcD = "check"
    /\ IF WaitFailed(sdc, machines, "stopped")
       THEN /\ pcD' = "failed"
            /\ outcomeD' = "Timeout"
       ELSE /\ pcD' = "delete"
            /\ outcomeD' = outcomeD
    /\ UNCHANGED <<sdc, paramsD, changedD, machines, stopCalls, deleteCalls,
                   elapsedD, pvars>>

(* one pass of: [sm.delete() for sm in machines]; after the last one       *)
(* return changed and main: exit_json                                      *)
DDelete ==
    /\ pcD = "delete"
    /\ Len(deleteCalls) < Len(machines)
    /\ LET sm == machines[Len(deleteCalls) + 1]
       IN  /\ sdc' = SmDelete(sdc, sm)
           /\ deleteCalls' = Append(deleteCalls, sm)
    /\ IF Len(deleteCalls) + 1 < Len(machines)
       THEN /\ pcD' = "delete"
            /\ outcomeD' = outcomeD
       ELSE /\ pcD' = "done"
            /\ outcomeD' = "success"
    /\ UNCHANGED <<paramsD, changedD, machines, stopCalls, elapsedD, pvars>>

-----------------------------------------------------------------------------
(* The provider changes the status of its machines on its own *)

(* a provisioned machine comes up *)
Boot(i) ==
    /\ sdc[i].status = "provisioning"
    /\ sdc' = [sdc EXCEPT ![i].status = "running"]
    /\ UNCHANGED <<pvars, dvars>>

(* a running machine that was asked to stop is stopped *)
Halt(i) ==
    /\ sdc[i].status = "running"
    /\ sdc[i].stop
    /\ sdc' = [sdc EXCEPT ![i].status = "stopped"]
    /\ UNCHANGED <<pvars, dvars>>

(* a machine that was asked to be deleted is gone *)
Remove(i) ==
    /\ sdc[i].status # "deleted"
    /\ sdc[i].delete
    /\ sdc' = [sdc EXCEPT ![i].status = "deleted"]
    /\ UNCHANGED <<pvars, dvars>>

Provider == \E i \in Ids(sdc) : Boot(i) \/ Halt(i) \/ Remove(i)

-----------------------------------------------------------------------------------------------------------------------------------------------------
(* Specifications *)

(* a machine the provider holds before the invocation starts *)
Machine == [status : {"provisioning", "running", "stopped"}, tags : TagDicts,
            stop : {FALSE}, delete : {FALSE}, count_tag : {{}}]

Pools == UNION {[1..n -> Machine] : n \in 0..MaxMachines}

Idle ==
    /\ pcP = "idle"
    /\ paramsP = NoParamsP
    /\ full_tags = {}
    /\ changedP = FALSE
    /\ existing_machines = <<>>
    /\ created_machines = <<>>
    /\ count_needed = 0
    /\ elapsedP = 0
    /\ outcomeP = "none"
    /\ resultP = <<>>
    /\ runningAtStart = 0
    /\ deletedAtStart = {}
    /\ pcD = "idle"
    /\ paramsD = NoParamsD
    /\ changedD = FALSE
    /\ machines = <<>>
    /\ stopCalls = <<>>
    /\ deleteCalls = <<>>
    /\ elapsedD = 0
    /\ outcomeD = "none"

(* the module is run against a provider holding any machines *)
Init == sdc \in Pools /\ Idle

Ended(pc) == pc \in {"done", "failed"}

(* one run with state=present; the provider matters to it while it runs *)
Next ==
    \/ \E t \in TagDicts, p \in ParamsP : PStart(t, p)
    \/ PCreate
    \/ PPoll
    \/ PCheck
    \/ PReturn
    \/ pcP \notin {"idle", "done", "failed"} /\ Provider

Spec == Init /\ [][Next]_vars

(* one run with state=absent; the provider matters to it while it runs *)
NextAbsent ==
    \/ \E t \in TagDicts, id \in {None} \cup {Some(i) : i \in Ids(sdc)},
          w \in WaitTimeouts : DStart(t, id, w)
    \/ DStop
    \/ DPoll
    \/ DCheck
    \/ DDelete
    \/ pcD \notin {"idle", "done", "failed"} /\ Provider

SpecAbsent == Init /\ [][NextAbsent]_vars

(* runs with state=present one after the other, on a provider that holds   *)
(* nothing at first                                                        *)
InitEmpty == sdc = <<>> /\ Idle

NextRepeat ==
    \/ \E t \in TagDicts, p \in ParamsP : PStart(t, p)
    \/ PCreate
    \/ PPoll
    \/ PCheck
    \/ PReturn
    \/ PExit
    \/ ~Ended(pcP) /\ Provider

SpecRepeat == InitEmpty /\ [][NextRepeat]_vars

(* a run with state=present in exact-count mode and a run with           *)
(* state=absent at the same time, both on the same tags                    *)
ParamsExact == {p \in ParamsP : /\ p.count_tag # {}
                                /\ p.exact_count \notin {None, Some(0)}
                                /\ p.count = 1}

NextConcurrent ==
    \/ \E p \in ParamsExact :
          /\ pcD = "idle" \/ paramsD.tags = p.count_tag
          /\ PStart({}, p)
    \/ PCreate
    \/ PPoll
    \/ PCheck
    \/ PReturn
    \/ \E t \in TagDicts \ {{}}, w \in WaitTimeouts :
          /\ pcP = "idle" \/ paramsP.count_tag = t
          /\ DStart(t, None, w)
    \/ DStop
    \/ DPoll
    \/ DCheck
    \/ DDelete
    \/ ~(Ended(pcP) /\ Ended(pcD)) /\ Provider

SpecConcurrent == Init /\ [][NextConcurrent]_vars

-----------------------------------------------------------------------------
(* Properties *)

(* exact-count mode as the documentation means it: count_tag and           *)
(* exact_count are both given                                              *)
ExactMode == paramsP.count_tag # {} /\ paramsP.exact_count # None

exactCount == Value(paramsP.exact_count)

(* the create calls are over *)
Created == pcP \in {"poll", "check", "return", "done", "failed"}

(* every machine of created_machines is one create call: the machines      *)
(* created are the last ones of the provider                               *)
CreateCalls ==
    \A n \in 1..Len(created_machines) :
        created_machines[n] = Len(sdc) - Len(created_machines) + n

(* C1: in exact-count mode with more machines asked for than the k running *)
(* ones that match count_tag, exactly exact_count - k create calls are     *)
(* issued, never more and in the end never fewer, and changed is true      *)
C1_ExactShortfall ==
    (ExactMode /\ exactCount > runningAtStart) =>
        /\ CreateCalls
        /\ Len(created_machines) <= exactCount - runningAtStart
        /\ Created => Len(created_machines) = exactCount - runningAtStart
        /\ Len(existing_machines) = runningAtStart
        /\ changedP

C1_Witness ==
    /\ ExactMode
    /\ runningAtStart >= 1
    /\ exactCount > runningAtStart
    /\ pcP = "done"
    /\ Len(created_machines) = exactCount - runningAtStart

(* C2, as claimed: with exact_count >= 0 and at least that many running    *)
(* machines matching count_tag, no machine is created, changed is false    *)
(* and no machine is asked to stop or to be deleted, whatever count is     *)
C2_NoCreateWhenEnough ==
    (ExactMode /\ runningAtStart >= exactCount) =>
        /\ created_machines = <<>>
        /\ ~changedP
        /\ \A i \in Ids(sdc) : ~sdc[i].stop /\ ~sdc[i].delete

(* C3, as amended: every machine created carries every pair of the         *)
(* count_tag it was created with, and a later run in exact-count mode with *)
(* the same count_tag lists it as existing exactly when it is running at   *)
(* that time; the machines of a run that waited and succeeded are running  *)
C3_Listing ==
    (pcP = "idle" /\ pcP' \notin {"idle", "failed"}
        /\ UseExactCount(paramsP'.count_tag, Value(paramsP'.exact_count))) =>
        \A i \in Ids(sdc) :
            sdc[i].count_tag = paramsP'.count_tag =>
                (i \in Range(existing_machines') <=> sdc[i].status = "running")

C3_Carried ==
    /\ \A i \in Ids(sdc) : sdc[i].count_tag \subseteq sdc[i].tags
    /\ (pcP = "done" /\ paramsP.wait) =>
           AllInStatus(sdc, created_machines, "running")

C3_CountTagCarried == [](C3_Carried) /\ [][C3_Listing]_vars

C3_Witness ==
    /\ ExactMode
    /\ pcP = "done"
    /\ created_machines # <<>>
    /\ \E n \in 1..Len(existing_machines) :
          sdc[existing_machines[n]].count_tag = paramsP.count_tag

(* C3, as claimed: a later run in exact-count mode lists every machine an  *)
(* earlier run created with the same count_tag, whether that run waited or *)
(* not                                                                     *)
C3_AlwaysCounted ==
    (pcP \notin {"idle", "failed"} /\ ExactMode /\ exactCount # 0) =>
        \A i \in Ids(sdc) \ Range(created_machines) :
            sdc[i].count_tag = paramsP.count_tag =>
                i \in Range(existing_machines)

(* C4: sm.delete() is called only after sm.stop() was called on every      *)
(* selected machine and all of them were seen stopped; when they are not   *)
(* all stopped in time the run fails and nothing is deleted                *)
C4_Stopped ==
    /\ deleteCalls # <<>> =>
          /\ stopCalls = machines
          /\ \A n \in 1..Len(machines) :
                /\ sdc[machines[n]].stop
                /\ sdc[machines[n]].status \in {"stopped", "deleted"}
    /\ pcD = "failed" => outcomeD = "Timeout" /\ deleteCalls = <<>>
    /\ \A i \in Ids(sdc) : sdc[i].delete => sdc[i].stop

C4_Check ==
    (pcD = "check" /\ pcD' # "check"
        /\ ~AllInStatus(sdc, machines, "stopped")) =>
        /\ pcD' = "failed"
        /\ outcomeD' = "Timeout"
        /\ sdc' = sdc

C4_StopBeforeDelete == [](C4_Stopped) /\ [][C4_Check]_vars

C4_Witness ==
    /\ pcD = "done"
    /\ Len(deleteCalls) = 2
    /\ elapsedD > 0

(* C5, as claimed: without exact_count, count = n makes n create calls,    *)
(* n machines are returned and changed is true                             *)
C5_FixedCount ==
    (pcP \in {"done", "failed"} /\ paramsP.exact_count = None
        /\ paramsP.count >= 1) =>
        /\ outcomeP = "success"
        /\ Len(created_machines) = paramsP.count
        /\ Len(resultP) = paramsP.count
        /\ changedP

(* C6, as claimed: exact_count given (here a target of one or more) with   *)
(* an empty count_tag fails with the "must have tags" error and creates    *)
(* nothing                                                                 *)
C6_FailsWithoutCountTag ==
    (pcP \in {"done", "failed"} /\ paramsP.exact_count # None
        /\ exactCount >= 1 /\ paramsP.count_tag = {}) =>
        /\ outcomeP = "ConfigurationError"
        /\ created_machines = <<>>

(* C6, as amended: exact_count given with an empty count_tag does not      *)
(* fail with the "must have tags" error: nothing is listed and count       *)
(* machines are created, as when exact_count is not used                   *)
C6_FallsBackToCount ==
    (pcP # "idle" /\ paramsP.exact_count # None /\ paramsP.count_tag = {}) =>
        /\ outcomeP # "ConfigurationError"
        /\ existing_machines = <<>>
        /\ CreateCalls
        /\ Len(created_machines) <= paramsP.count
        /\ Created => Len(created_machines) = paramsP.count
        /\ pcP = "done" => Len(resultP) = paramsP.count

C6_Witness ==
    /\ paramsP.exact_count # None
    /\ exactCount >= 1
    /\ paramsP.count_tag = {}
    /\ pcP = "done"
    /\ outcomeP = "success"
    /\ Len(created_machines) = 2

(* C7: when the machines created are not all running in time the run fails *)
(* with the timeout, returns nothing, creates nothing more and asks no     *)
(* machine to stop or to be deleted: the machines it created stay          *)
C7_Failed ==
    (pcP = "failed" /\ outcomeP = "Timeout") =>
        /\ paramsP.wait
        /\ elapsedP >= paramsP.wait_timeout
        /\ resultP = <<>>
        /\ CreateCalls
        /\ Len(created_machines) = count_needed
        /\ \A n \in 1..Len(created_machines) :
              /\ sdc[created_machines[n]].status # "deleted"
              /\ ~sdc[created_machines[n]].stop
              /\ ~sdc[created_machines[n]].delete

C7_Check ==
    /\ (pcP = "check" /\ pcP' # "check"
           /\ ~AllInStatus(sdc, created_machines, "running")) =>
          /\ pcP' = "failed"
          /\ outcomeP' = "Timeout"
          /\ resultP' = <<>>
          /\ sdc' = sdc
    /\ pcP = "failed" => sdc' = sdc /\ created_machines' = created_machines

C7_TimeoutFails == [](C7_Failed) /\ [][C7_Check]_vars

C7_Witness ==
    /\ pcP = "failed"
    /\ outcomeP = "Timeout"
    /\ Len(created_machines) = 2
    /\ sdc[created_machines[1]].status = "running"
    /\ sdc[created_machines[2]].status = "provisioning"

(* the machines state=absent is to select: those carrying tags, whatever   *)
(* their status, else the one of machine_id, else none                     *)
Selected ==
    IF paramsD.tags # {}
    THEN {i \in Ids(sdc) : paramsD.tags \subseteq sdc[i].tags}
    ELSE IF paramsD.machine_id # None THEN {Value(paramsD.machine_id)}
    ELSE {}

(* C8: sm.stop() and sm.delete() are called on the selected machines, once *)
(* each, and on no other machine; with no tags and no machine_id nothing   *)
(* is called; changed is true exactly when a machine is selected           *)
C8_OnlySelection ==
    pcD # "idle" =>
        /\ Range(machines) = Selected
        /\ NoDuplicates(machines)
        /\ IsPrefix(stopCalls, machines)
        /\ IsPrefix(deleteCalls, machines)
        /\ {i \in Ids(sdc) : sdc[i].stop} = Range(stopCalls)
        /\ {i \in Ids(sdc) : sdc[i].delete} = Range(deleteCalls)
        /\ pcD = "done" => stopCalls = machines /\ deleteCalls = machines
        /\ changedD <=> Selected # {}
        /\ (paramsD.tags = {} /\ paramsD.machine_id = None) =>
              pcD = "done" /\ stopCalls = <<>> /\ deleteCalls = <<>>

C8_Witness ==
    /\ pcD = "done"
    /\ paramsD.tags # {}
    /\ paramsD.machine_id # None
    /\ Value(paramsD.machine_id) \notin Range(machines)
    /\ Len(deleteCalls) = 1

(* C9, as claimed: a successful run returns the existing machines followed *)
(* by the created ones, each once: max(k, exact_count) machines in         *)
(* exact-count mode, the created machines alone otherwise                  *)
C9_Result ==
    pcP = "done" =>
        /\ resultP = existing_machines \o created_machines
        /\ NoDuplicates(resultP)
        /\ ExactMode =>
              /\ Len(existing_machines) = runningAtStart
              /\ Len(resultP) = Max(runningAtStart, exactCount)
        /\ ~ExactMode => resultP = created_machines

(* C10: a machine sm.delete() was already called on is not among the       *)
(* machines a run in exact-count mode lists as existing: delete is called  *)
(* on stopped machines only, and only running machines are listed          *)
C10_DeletedNotListed ==
    /\ \A n \in 1..Len(existing_machines) :
          existing_machines[n] \notin deletedAtStart
    /\ \A i \in Ids(sdc) : sdc[i].delete => sdc[i].status \in {"stopped", "deleted"}

C10_Witness ==
    /\ pcP = "create"
    /\ created_machines = <<>>
    /\ \E i \in deletedAtStart :
          /\ Matches(sdc[i], paramsP.count_tag)
          /\ sdc[i].status = "stopped"

=============================================================================
